---------------------------- MODULE Spec2Model ----------------------------
(***************************************************************************)
(* A model of scoutfs/config.py: the class attribute                       *)
(* ScoutFSConfig.DEFAULT_CONFIG computed from os.environ when the module   *)
(* body runs, ScoutFSConfig.load, ScoutFSConfig.validate and               *)
(* get_scoutfs_config.                                                     *)
(*                                                                         *)
(* Python values are tagged records ([kind, val]) so that None, "", 0 and  *)
(* False stay distinct.  A dict is a function from its keys to values.     *)
(* Dicts live in a heap (a sequence of dicts, a reference is an index), so *)
(* that copying and aliasing are different things.  A float is held in     *)
(* tenths (30.0 is 300).                                                   *)
(***************************************************************************)
EXTENDS Integers, Sequences, FiniteSets, TLC

VARIABLES
    environ,         \* os.environ: a function from the names that are set to strings
    importEnv,       \* history: os.environ as it was when the module body last ran
    DEFAULT_CONFIG,  \* ScoutFSConfig.DEFAULT_CONFIG: a reference into heap
    heap,            \* the dicts that exist, by reference
    results,         \* the references load / get_scoutfs_config returned to callers
    call,            \* the last operation: its name, argument and outcome
    pc,              \* the caller: "ready" to call, "done" for a one-call caller
    envChanges,      \* how many times the caller changed os.environ
    mutations        \* how many times the caller changed a returned dict

vars == <<environ, importEnv, DEFAULT_CONFIG, heap, results, call, pc,
          envChanges, mutations>>

---------------------------------------------------------------------------
(* Python values *)

None == [kind |-> "none"]
PyStr(s) == [kind |-> "str", val |-> s]
PyBool(b) == [kind |-> "bool", val |-> b]
PyInt(n) == [kind |-> "int", val |-> n]
PyFloat(tenths) == [kind |-> "float", val |-> tenths]
PyDict(d) == [kind |-> "dict", val |-> d]

\* bool(v): None, "", 0, 0.0, False and {} are false
Truthy(v) ==
    CASE v.kind = "none" -> FALSE
      [] v.kind = "str" -> v.val # ""
      [] v.kind = "bool" -> v.val
      [] v.kind = "int" -> v.val # 0
      [] v.kind = "float" -> v.val # 0
      [] v.kind = "dict" -> DOMAIN v.val # {}

EmptyDict == [k \in {} |-> None]

---------------------------------------------------------------------------
(* str methods and the conversions the module body uses *)

\* s.startswith(p)
StartsWith(s, p) == Len(s) >= Len(p) /\ SubSeq(s, 1, Len(p)) = p

\* s.startswith((p1, p2, ...)): a tuple of prefixes
StartsWithAny(s, ps) == \E i \in DOMAIN ps : StartsWith(s, ps[i])

UpperCase == "ABCDEFGHIJKLMNOPQRSTUVWXYZ"
LowerCase == "abcdefghijklmnopqrstuvwxyz"

LowerChar(c) ==
    IF \E i \in 1..Len(UpperCase) : SubSeq(UpperCase, i, i) = c
    THEN LET i == CHOOSE j \in 1..Len(UpperCase) : SubSeq(UpperCase, j, j) = c
         IN SubSeq(LowerCase, i, i)
    ELSE c

\* s.lower()
RECURSIVE Lower(_)
Lower(s) ==
    IF s = "" THEN ""
    ELSE LowerChar(SubSeq(s, 1, 1)) \o Lower(SubSeq(s, 2, Len(s)))

DecimalDigits == "0123456789"

DigitVal(c) ==
    (CHOOSE i \in 1..Len(DecimalDigits) : SubSeq(DecimalDigits, i, i) = c) - 1

\* int(s) for a string of decimal digits
RECURSIVE ParseInt(_)
ParseInt(s) ==
    IF Len(s) = 1 THEN DigitVal(s)
    ELSE ParseInt(SubSeq(s, 1, Len(s) - 1)) * 10 + DigitVal(SubSeq(s, Len(s), Len(s)))

\* float(s), in tenths, for digits with at most one digit after the point
ParseFloat(s) ==
    IF Len(s) >= 3 /\ SubSeq(s, Len(s) - 1, Len(s) - 1) = "."
    THEN ParseInt(SubSeq(s, 1, Len(s) - 2)) * 10
            + DigitVal(SubSeq(s, Len(s), Len(s)))
    ELSE ParseInt(s) * 10

---------------------------------------------------------------------------
(* The module body: DEFAULT_CONFIG from os.environ *)

\* os.environ.get(name, default)
EnvGet(e, name, default) == IF name \in DOMAIN e THEN e[name] ELSE default

\* os.environ.get(name): None when the name is not set
EnvGetOpt(e, name) == IF name \in DOMAIN e THEN PyStr(e[name]) ELSE None

\* the f-string that is the default of SCOUTFS_API_URL
ComposedUrl(e) ==
    "https://" \o EnvGet(e, "SCOUTFS_API_HOST", "hsm.dmawi.de") \o ":"
        \o EnvGet(e, "SCOUTFS_API_PORT", "8080") \o "/"
        \o "v" \o EnvGet(e, "SCOUTFS_API_VERSION", "1")

ApiUrl(e) == EnvGet(e, "SCOUTFS_API_URL", ComposedUrl(e))

\* a comparison that forgets .lower()
SslVerifyCaseSensitive(e) == EnvGet(e, "SCOUTFS_SSL_VERIFY", "False") = "true"

SslVerify(e) == Lower(EnvGet(e, "SCOUTFS_SSL_VERIFY", "False")) = "true"

\* the dict literal of the class body, evaluated in environment e
ComputeDefaults(e) ==
    [k \in {"api_url", "username", "password", "ssl_verify", "ssl_cert",
            "connect_timeout", "request_timeout", "max_retries", "retry_delay",
            "token_cache_ttl"} |->
        CASE k = "api_url" -> PyStr(ApiUrl(e))
          [] k = "username" -> EnvGetOpt(e, "SCOUTFS_USERNAME")
          [] k = "password" -> EnvGetOpt(e, "SCOUTFS_PASSWORD")
          [] k = "ssl_verify" -> PyBool(SslVerify(e))
          [] k = "ssl_cert" -> EnvGetOpt(e, "SCOUTFS_SSL_CERT")
          [] k = "connect_timeout" ->
                PyFloat(ParseFloat(EnvGet(e, "SCOUTFS_CONNECT_TIMEOUT", "30.0")))
          [] k = "request_timeout" ->
                PyFloat(ParseFloat(EnvGet(e, "SCOUTFS_REQUEST_TIMEOUT", "300.0")))
          [] k = "max_retries" ->
                PyInt(ParseInt(EnvGet(e, "SCOUTFS_MAX_RETRIES", "3")))
          [] k = "retry_delay" ->
                PyFloat(ParseFloat(EnvGet(e, "SCOUTFS_RETRY_DELAY", "1.0")))
          [] k = "token_cache_ttl" ->
                PyInt(ParseInt(EnvGet(e, "SCOUTFS_TOKEN_CACHE_TTL", "300")))]

---------------------------------------------------------------------------
(* dict operations *)

\* d.get(k): None when k is not a key
Get(d, k) == IF k \in DOMAIN d THEN d[k] ELSE None

\* an update that keeps the values d already has (setdefault for every key)
UpdateKeepOld(d, u) ==
    [k \in DOMAIN d \cup DOMAIN u |-> IF k \in DOMAIN d THEN d[k] ELSE u[k]]

\* d.update(u), as the new content of d
Update(d, u) ==
    [k \in DOMAIN d \cup DOMAIN u |-> IF k \in DOMAIN u THEN u[k] ELSE d[k]]

\* a comprehension without its filter
FilterNothing(config) == config

\* {k: v for k, v in config.items() if v is not None}
FilterNone(config) ==
    [k \in {j \in DOMAIN config : config[j].kind # "none"} |-> config[k]]

\* del d[k], as the new content of d
Without(d, k) == [j \in DOMAIN d \ {k} |-> d[j]]

---------------------------------------------------------------------------
(* ScoutFSConfig.load *)

\* defaults read from os.environ again at every call
DefaultsReread == ComputeDefaults(environ)

\* cls.DEFAULT_CONFIG, as load reads it
Defaults == heap[DEFAULT_CONFIG]

\* result = cls.DEFAULT_CONFIG, without the copy
CopiedAlias == [heap |-> heap, ref |-> DEFAULT_CONFIG]

\* result = cls.DEFAULT_CONFIG.copy(): a new dict with the same items
Copied == [heap |-> Append(heap, Defaults), ref |-> Len(heap) + 1]

\* result.update({...}) when config is a dict
Merged(c, config) ==
    [heap |-> [c.heap EXCEPT ![c.ref] = Update(@, FilterNone(config.val))],
     ref |-> c.ref]

\* a load whose str branch records the path in the result
LoadOutcomeFileKey(config) ==
    LET result == Copied
    IN IF config.kind = "none" THEN result
       ELSE IF config.kind = "str"
       THEN Merged(result, PyDict([config_file |-> config]))
       ELSE IF config.kind = "dict" THEN Merged(result, config)
       ELSE result

\* load(config): the heap after the call and the reference returned
LoadOutcome(config) ==
    LET result == Copied
    IN IF config.kind = "none" THEN result
       ELSE IF config.kind = "str" THEN result
       ELSE IF config.kind = "dict" THEN Merged(result, config)
       ELSE result

---------------------------------------------------------------------------
(* ScoutFSConfig.validate *)

Returned == [exc |-> "", msg |-> ""]
Raise(exc, msg) == [exc |-> exc, msg |-> msg]

\* a test with "and" in place of "or"
CredentialsBothMissing(config) ==
    ~Truthy(Get(config, "username")) /\ ~Truthy(Get(config, "password"))

\* not config.get("username") or not config.get("password")
CredentialsMissing(config) ==
    ~Truthy(Get(config, "username")) \/ ~Truthy(Get(config, "password"))

\* a prefix test on the lower-cased URL
UrlCheckIgnoreCase(config) ==
    IF "api_url" \notin DOMAIN config THEN Raise("KeyError", "'api_url'")
    ELSE IF config["api_url"].kind # "str"
    THEN Raise("AttributeError", "object has no attribute 'startswith'")
    ELSE IF ~StartsWithAny(Lower(config["api_url"].val), <<"http://", "https://">>)
    THEN Raise("ValueError", "API URL must start with http:// or https://")
    ELSE Returned

\* config["api_url"].startswith(("http://", "https://")), or what it raises:
\* KeyError without the key, AttributeError for a value that is no str
UrlCheck(config) ==
    IF "api_url" \notin DOMAIN config THEN Raise("KeyError", "'api_url'")
    ELSE IF config["api_url"].kind # "str"
    THEN Raise("AttributeError", "object has no attribute 'startswith'")
    ELSE IF ~StartsWithAny(config["api_url"].val, <<"http://", "https://">>)
    THEN Raise("ValueError", "API URL must start with http:// or https://")
    ELSE Returned

\* validate(config): how the call ends
ValidateOutcome(config) ==
    IF CredentialsMissing(config)
    THEN Raise("ValueError",
               "Both username and password must be provided for authentication")
    ELSE UrlCheck(config)

---------------------------------------------------------------------------
(* get_scoutfs_config *)

\* a get_scoutfs_config that validates the overrides, not the loaded config
GetOutcomeValidatesOverrides(overrides) ==
    LET config == LoadOutcome(PyDict(overrides))
        v == ValidateOutcome(overrides)
    IN [heap |-> config.heap,
        exc |-> v.exc,
        msg |-> v.msg,
        ref |-> IF v.exc = "" THEN config.ref ELSE 0]

\* get_scoutfs_config(**overrides): the heap after the call, how the call
\* ends and the reference returned (0: nothing is returned)
GetOutcome(overrides) ==
    LET config == LoadOutcome(PyDict(overrides))
        v == ValidateOutcome(config.heap[config.ref])
    IN [heap |-> config.heap,
        exc |-> v.exc,
        msg |-> v.msg,
        ref |-> IF v.exc = "" THEN config.ref ELSE 0]

---------------------------------------------------------------------------
(* Bounds and the inputs the callers draw from *)

MaxObjs == 3         \* dicts that exist at once (DEFAULT_CONFIG included)
MaxEnvChanges == 1   \* changes of os.environ after the import
MaxMutations == 1    \* caller changes of returned dicts

Unset == "<unset>"   \* in an enumeration of environments: the name is not set
Absent == [kind |-> "absent"]  \* in an enumeration of dicts: the key is missing

\* the environment a choice f (a value or Unset for every name) stands for
EnvOf(f) == [n \in {m \in DOMAIN f : f[m] # Unset} |-> f[n]]

\* the dict a choice f (a value or Absent for every key) stands for
DictOf(f) == [k \in {j \in DOMAIN f : f[j].kind # "absent"} |-> f[k]]

\* environments the module body is run in when the claim is about the defaults
DefaultsEnvs ==
    {EnvOf(f) : f \in
        [SCOUTFS_API_URL : {Unset, "", "http://other.host/api"},
         SCOUTFS_API_HOST : {Unset, "custom.host"},
         SCOUTFS_API_PORT : {Unset, "9000"},
         SCOUTFS_API_VERSION : {Unset, "2"},
         SCOUTFS_SSL_VERIFY : {Unset, "true", "True", "TRUE", "false", "yes", ""},
         SCOUTFS_USERNAME : {Unset, "testuser"},
         SCOUTFS_MAX_RETRIES : {Unset, "5"},
         SCOUTFS_CONNECT_TIMEOUT : {Unset, "2.5"}]}

\* environments the module is imported in when the claim is about load
LoadEnvs ==
    {EnvOf(f) : f \in
        [SCOUTFS_USERNAME : {Unset, "", "testuser"},
         SCOUTFS_PASSWORD : {Unset, "testpass"},
         SCOUTFS_API_HOST : {Unset, "test.host"},
         SCOUTFS_API_URL : {Unset, "ftp://test.host"}]}

\* the environment of the test suite
TestEnv ==
    [SCOUTFS_USERNAME |-> "testuser", SCOUTFS_PASSWORD |-> "testpass",
     SCOUTFS_API_HOST |-> "test.host", SCOUTFS_API_PORT |-> "8080",
     SCOUTFS_API_VERSION |-> "1"]

\* override dicts given to load and to get_scoutfs_config
Overrides ==
    {DictOf(f) : f \in
        [username : {Absent, None, PyStr(""), PyStr("override_user")},
         password : {Absent, None, PyStr("override_pass")},
         api_url : {Absent, None, PyStr("test.host"), PyStr("http://x"), PyInt(5)},
         ssl_verify : {Absent, PyBool(TRUE)},
         max_retries : {Absent, PyInt(5)},
         new_key : {Absent, None, PyStr("extra")}]}

\* arguments of load: None, a str (a file path), a dict, and a value of
\* another type, which falls through every isinstance test
LoadArgs ==
    {None, PyStr("config.yaml"), PyStr(""), PyInt(7)}
        \cup {PyDict(o) : o \in Overrides}

\* dicts given to validate
ValidateInputs ==
    {DictOf(f) : f \in
        [username : {Absent, None, PyStr(""), PyStr("testuser")},
         password : {Absent, None, PyStr(""), PyStr("testpass")},
         api_url : {Absent, None, PyInt(5), PyStr(""), PyStr("test.host"),
                    PyStr("ftp://test.host"), PyStr("https://test.host:8080/v1"),
                    PyStr("http://x"), PyStr("https://"), PyStr("HTTP://x"),
                    PyStr("http:/x")},
         max_retries : {Absent, PyInt(3)}]}

\* what a long-running caller sets in os.environ
EnvSettings ==
    {<<"SCOUTFS_API_HOST", "custom.host">>, <<"SCOUTFS_SSL_VERIFY", "true">>}

\* what a long-running caller removes from os.environ
EnvRemovals == {"SCOUTFS_USERNAME"}

\* what a long-running caller gives to load
LifeLoadArgs ==
    {None, PyStr("config.yaml"),
     PyDict([username |-> None, password |-> PyStr("newpass"), new_key |-> None])}

\* what a long-running caller gives to get_scoutfs_config
LifeOverrides ==
    {EmptyDict, [username |-> PyStr("helper_user"), ssl_verify |-> PyBool(TRUE)]}

\* what a long-running caller stores into a returned dict
LifeItems == {<<"username", PyStr("changed")>>}

\* what a long-running caller deletes from a returned dict
LifeDeletions == {"password"}

---------------------------------------------------------------------------
(* The state after the import, and the operations *)

\* the module body has run in an environment of envs; the caller is p:
\* "once" makes one call, "loop" goes on calling
Imported(envs, p) ==
    /\ environ \in envs
    /\ importEnv = environ
    /\ heap = <<ComputeDefaults(environ)>>
    /\ DEFAULT_CONFIG = 1
    /\ results = {}
    /\ call = [op |-> "import", arg |-> None, exc |-> "", msg |-> "",
               ref |-> 0, val |-> EmptyDict]
    /\ pc = p
    /\ envChanges = 0
    /\ mutations = 0

\* where the caller is after a call
After(p) == IF p = "once" THEN "done" ELSE p

\* result = ScoutFSConfig.load(config)
Load(config) ==
    /\ pc # "done"
    /\ Len(heap) < MaxObjs
    /\ LET r == LoadOutcome(config)
       IN /\ heap' = r.heap
          /\ results' = results \cup {r.ref}
          /\ call' = [op |-> "load", arg |-> config, exc |-> "", msg |-> "",
                      ref |-> r.ref, val |-> r.heap[r.ref]]
    /\ pc' = After(pc)
    /\ UNCHANGED <<environ, importEnv, DEFAULT_CONFIG, envChanges, mutations>>

\* ScoutFSConfig.validate(config)
Validate(config) ==
    /\ pc # "done"
    /\ LET v == ValidateOutcome(config)
       IN call' = [op |-> "validate", arg |-> PyDict(config), exc |-> v.exc,
                   msg |-> v.msg, ref |-> 0, val |-> EmptyDict]
    /\ pc' = After(pc)
    /\ UNCHANGED <<environ, importEnv, DEFAULT_CONFIG, heap, results,
                   envChanges, mutations>>

\* result = get_scoutfs_config(**overrides)
GetScoutfsConfig(overrides) ==
    /\ pc # "done"
    /\ Len(heap) < MaxObjs
    /\ LET g == GetOutcome(overrides)
       IN /\ heap' = g.heap
          /\ results' = IF g.ref # 0 THEN results \cup {g.ref} ELSE results
          /\ call' = [op |-> "get_scoutfs_config", arg |-> PyDict(overrides),
                      exc |-> g.exc, msg |-> g.msg, ref |-> g.ref,
                      val |-> IF g.ref # 0 THEN g.heap[g.ref] ELSE EmptyDict]
    /\ pc' = After(pc)
    /\ UNCHANGED <<environ, importEnv, DEFAULT_CONFIG, envChanges, mutations>>

\* importlib.reload(config): the module body runs again, the class and its
\* DEFAULT_CONFIG are made anew from os.environ as it is now
Reload ==
    /\ pc # "done"
    /\ Len(heap) < MaxObjs
    /\ heap' = Append(heap, ComputeDefaults(environ))
    /\ DEFAULT_CONFIG' = Len(heap) + 1
    /\ importEnv' = environ
    /\ call' = [op |-> "reload", arg |-> None, exc |-> "", msg |-> "",
                ref |-> 0, val |-> EmptyDict]
    /\ pc' = After(pc)
    /\ UNCHANGED <<environ, results, envChanges, mutations>>

\* os.environ[name] = value
SetEnv(name, value) ==
    /\ pc # "done"
    /\ envChanges < MaxEnvChanges
    /\ environ' = [n \in DOMAIN environ \cup {name} |->
                      IF n = name THEN value ELSE environ[n]]
    /\ envChanges' = envChanges + 1
    /\ call' = [op |-> "setenv", arg |-> PyStr(name), exc |-> "", msg |-> "",
                ref |-> 0, val |-> EmptyDict]
    /\ pc' = After(pc)
    /\ UNCHANGED <<importEnv, DEFAULT_CONFIG, heap, results, mutations>>

\* del os.environ[name]
DelEnv(name) ==
    /\ pc # "done"
    /\ envChanges < MaxEnvChanges
    /\ name \in DOMAIN environ
    /\ environ' = [n \in DOMAIN environ \ {name} |-> environ[n]]
    /\ envChanges' = envChanges + 1
    /\ call' = [op |-> "delenv", arg |-> PyStr(name), exc |-> "", msg |-> "",
                ref |-> 0, val |-> EmptyDict]
    /\ pc' = After(pc)
    /\ UNCHANGED <<importEnv, DEFAULT_CONFIG, heap, results, mutations>>

\* result[key] = value, on a dict a call returned
SetItem(r, key, value) ==
    /\ pc # "done"
    /\ mutations < MaxMutations
    /\ r \in results
    /\ heap' = [heap EXCEPT ![r] = Update(@, [k \in {key} |-> value])]
    /\ mutations' = mutations + 1
    /\ call' = [op |-> "setitem", arg |-> PyStr(key), exc |-> "", msg |-> "",
                ref |-> r, val |-> EmptyDict]
    /\ pc' = After(pc)
    /\ UNCHANGED <<environ, importEnv, DEFAULT_CONFIG, results, envChanges>>

\* del result[key], on a dict a call returned
DelItem(r, key) ==
    /\ pc # "done"
    /\ mutations < MaxMutations
    /\ r \in results
    /\ key \in DOMAIN heap[r]
    /\ heap' = [heap EXCEPT ![r] = Without(@, key)]
    /\ mutations' = mutations + 1
    /\ call' = [op |-> "delitem", arg |-> PyStr(key), exc |-> "", msg |-> "",
                ref |-> r, val |-> EmptyDict]
    /\ pc' = After(pc)
    /\ UNCHANGED <<environ, importEnv, DEFAULT_CONFIG, results, envChanges>>

---------------------------------------------------------------------------
(* Specifications *)

\* the module body in every environment of DefaultsEnvs, run at the import
\* and again by a reload
InitDefaults == Imported(DefaultsEnvs, "once")
NextDefaults == Reload
SpecDefaults == InitDefaults /\ [][NextDefaults]_vars

\* one call of load or of get_scoutfs_config
InitLoad == Imported(LoadEnvs, "once")
LoadOnce == \E config \in LoadArgs : Load(config)
GetOnce == \E overrides \in Overrides : GetScoutfsConfig(overrides)
NextLoad == LoadOnce \/ GetOnce
SpecLoad == InitLoad /\ [][NextLoad]_vars

\* one call of validate
InitValidate == Imported({TestEnv}, "once")
ValidateOnce == \E config \in ValidateInputs : Validate(config)
NextValidate == ValidateOnce
SpecValidate == InitValidate /\ [][NextValidate]_vars

\* a process that goes on changing os.environ, reloading, loading,
\* validating what it loaded and changing the dicts it was given
Init == Imported({TestEnv}, "loop")
ChangeEnv ==
    \/ \E s \in EnvSettings : SetEnv(s[1], s[2])
    \/ \E name \in EnvRemovals : DelEnv(name)
LoadAgain == \E config \in LifeLoadArgs : Load(config)
GetAgain == \E overrides \in LifeOverrides : GetScoutfsConfig(overrides)
ValidateResult == \E r \in results : Validate(heap[r])
ChangeResult ==
    \/ \E r \in results, i \in LifeItems : SetItem(r, i[1], i[2])
    \/ \E r \in results, key \in LifeDeletions : DelItem(r, key)
Next ==
    \/ ChangeEnv
    \/ Reload
    \/ LoadAgain
    \/ GetAgain
    \/ ValidateResult
    \/ ChangeResult
Spec == Init /\ [][Next]_vars

---------------------------------------------------------------------------
(* Properties *)

\* sub occurs in s
Contains(s, sub) ==
    \E i \in 1..(Len(s) - Len(sub) + 1) : SubSeq(s, i, i + Len(sub) - 1) = sub

\* key k of dict d is absent, None or the empty string
MissingOrEmpty(d, k) ==
    k \notin DOMAIN d \/ d[k].kind = "none" \/ (d[k].kind = "str" /\ d[k].val = "")

\* key k of dict d is a non-empty string
NonEmptyStr(d, k) == k \in DOMAIN d /\ d[k].kind = "str" /\ d[k].val # ""

\* s begins with http:// or with https://, compared character by character
HasHttpPrefix(s) ==
    \/ Len(s) >= 7 /\ SubSeq(s, 1, 7) = "http://"
    \/ Len(s) >= 8 /\ SubSeq(s, 1, 8) = "https://"

\* every way to write "true" in upper and lower case letters
TrueSpellings ==
    {a \o b \o c \o d : a \in {"t", "T"}, b \in {"r", "R"},
                        c \in {"u", "U"}, d \in {"e", "E"}}

\* the last call was load with a dict
LoadedDict == call.op = "load" /\ call.arg.kind = "dict"

\* C1: load(O) for a dict O returns a dict that holds every key of O whose
\* value is not None with exactly that value (keys that are no defaults
\* included), and every key of DEFAULT_CONFIG that O does not map to a value
\* other than None with its default value.
C1_LoadMergesOverrides ==
    LoadedDict =>
        LET O == call.arg.val
            d == heap[DEFAULT_CONFIG]
            result == heap[call.ref]
        IN /\ \A k \in DOMAIN O :
                O[k].kind # "none" => k \in DOMAIN result /\ result[k] = O[k]
           /\ \A k \in DOMAIN d :
                (k \notin DOMAIN O \/ O[k].kind = "none")
                    => k \in DOMAIN result /\ result[k] = d[k]

\* load was given a dict that overrides a default, adds a key and leaves
\* other defaults alone
C1_Witness ==
    /\ LoadedDict
    /\ "username" \in DOMAIN call.arg.val
    /\ call.arg.val["username"] = PyStr("override_user")
    /\ heap[DEFAULT_CONFIG]["username"] = PyStr("testuser")
    /\ "new_key" \in DOMAIN call.arg.val
    /\ call.arg.val["new_key"] = PyStr("extra")
    /\ "password" \notin DOMAIN call.arg.val
    /\ heap[call.ref]["username"] = PyStr("override_user")

\* C2: a pair of O whose value is None is skipped by load(O): a key of
\* DEFAULT_CONFIG keeps its default value, a key that is no default is absent
\* from the result.
C2_NullOverridesSkipped ==
    LoadedDict =>
        LET O == call.arg.val
            d == heap[DEFAULT_CONFIG]
            result == heap[call.ref]
        IN \A k \in DOMAIN O :
              O[k].kind = "none" =>
                  IF k \in DOMAIN d
                  THEN k \in DOMAIN result /\ result[k] = d[k]
                  ELSE k \notin DOMAIN result

\* load was given None for a default that has a value and None for a new key
C2_Witness ==
    /\ LoadedDict
    /\ "username" \in DOMAIN call.arg.val
    /\ call.arg.val["username"] = None
    /\ "new_key" \in DOMAIN call.arg.val
    /\ call.arg.val["new_key"] = None
    /\ heap[DEFAULT_CONFIG]["username"] = PyStr("testuser")
    /\ heap[call.ref]["username"] = PyStr("testuser")
    /\ "new_key" \notin DOMAIN heap[call.ref]

\* C3: load with None (or with no argument) and load with a str return a
\* dict equal to DEFAULT_CONFIG key for key and value for value, whatever
\* the str is.
C3_LoadNoneOrStrIsDefaults ==
    (call.op = "load" /\ call.arg.kind \in {"none", "str"}) =>
        /\ DOMAIN heap[call.ref] = DOMAIN heap[DEFAULT_CONFIG]
        /\ \A k \in DOMAIN heap[DEFAULT_CONFIG] :
              heap[call.ref][k] = heap[DEFAULT_CONFIG][k]

\* load was given a file path
C3_Witness ==
    /\ call.op = "load"
    /\ call.arg = PyStr("config.yaml")
    /\ heap[call.ref] = heap[DEFAULT_CONFIG]
    /\ heap[call.ref]["username"] = PyStr("testuser")

\* the last call was validate
Validated == call.op = "validate"

\* C4: validate raises ValueError with a message containing "must be
\* provided" for every dict in which username is absent, None or empty, or
\* password is, whatever api_url is.
C4_MissingCredentialsRejected ==
    Validated =>
        LET config == call.arg.val
        IN (MissingOrEmpty(config, "username") \/ MissingOrEmpty(config, "password"))
              => /\ call.exc = "ValueError"
                 /\ Contains(call.msg, "must be provided")

\* validate was given a username, an empty password and a good api_url
C4_Witness ==
    /\ Validated
    /\ NonEmptyStr(call.arg.val, "username")
    /\ "password" \in DOMAIN call.arg.val
    /\ call.arg.val["password"] = PyStr("")
    /\ "api_url" \in DOMAIN call.arg.val
    /\ call.arg.val["api_url"] = PyStr("https://test.host:8080/v1")
    /\ call.exc = "ValueError"

\* C5: for a dict with a non-empty username and password and a str api_url,
\* validate raises ValueError exactly when api_url begins with neither
\* "http://" nor "https://" (upper case does not match): it raises for "",
\* "test.host" and "ftp://test.host" and returns for
\* "https://test.host:8080/v1" and "http://x".
C5_UrlSchemeChecked ==
    Validated =>
        LET config == call.arg.val
        IN (/\ NonEmptyStr(config, "username")
            /\ NonEmptyStr(config, "password")
            /\ "api_url" \in DOMAIN config
            /\ config["api_url"].kind = "str")
              => LET url == config["api_url"].val
                 IN /\ call.exc \in {"", "ValueError"}
                    /\ call.exc = "ValueError" <=> ~HasHttpPrefix(url)
                    /\ call.exc = "ValueError" =>
                          Contains(call.msg, "must start with http:// or https://")
                    /\ url \in {"", "test.host", "ftp://test.host"}
                          => call.exc = "ValueError"
                    /\ url \in {"https://test.host:8080/v1", "http://x"}
                          => call.exc = ""

\* validate was given credentials and an api_url with an upper-case scheme
C5_Witness ==
    /\ Validated
    /\ NonEmptyStr(call.arg.val, "username")
    /\ NonEmptyStr(call.arg.val, "password")
    /\ "api_url" \in DOMAIN call.arg.val
    /\ call.arg.val["api_url"] = PyStr("HTTP://x")
    /\ call.exc = "ValueError"

\* C6: validate has one error kind: for every dict, with or without an
\* api_url key, the call returns or raises ValueError, and it raises exactly
\* for missing credentials and for an api_url with another scheme.
C6_SingleErrorKind ==
    Validated =>
        LET config == call.arg.val
        IN /\ call.exc \in {"", "ValueError"}
           /\ call.exc = "ValueError" <=>
                \/ MissingOrEmpty(config, "username")
                \/ MissingOrEmpty(config, "password")
                \/ /\ "api_url" \in DOMAIN config
                   /\ config["api_url"].kind = "str"
                   /\ ~HasHttpPrefix(config["api_url"].val)

\* the last call was get_scoutfs_config
GotConfig == call.op = "get_scoutfs_config"

\* C7: get_scoutfs_config(**overrides) is load followed by validate: when it
\* returns, the dict returned is load(overrides) and passes validate
\* (non-empty username and password, api_url with an http:// or https://
\* prefix); when validate raises on the loaded dict, that error reaches the
\* caller and no dict is returned; without credentials in DEFAULT_CONFIG and
\* in the overrides it raises the "must be provided" error.
C7_GetIsLoadThenValidate ==
    GotConfig =>
        LET overrides == call.arg.val
            d == heap[DEFAULT_CONFIG]
            loaded == Update(d, FilterNone(overrides))
            v == ValidateOutcome(loaded)
        IN /\ call.exc = "" <=> call.ref # 0
           /\ call.ref # 0 =>
                /\ call.ref \in results
                /\ heap[call.ref] = loaded
                /\ NonEmptyStr(heap[call.ref], "username")
                /\ NonEmptyStr(heap[call.ref], "password")
                /\ heap[call.ref]["api_url"].kind = "str"
                /\ HasHttpPrefix(heap[call.ref]["api_url"].val)
           /\ v.exc # "" =>
                /\ call.exc = v.exc
                /\ call.msg = v.msg
                /\ call.ref = 0
                /\ results = {}
           /\ (/\ ~Truthy(d["username"]) /\ ~Truthy(d["password"])
               /\ MissingOrEmpty(overrides, "username")
               /\ MissingOrEmpty(overrides, "password"))
                => /\ call.exc = "ValueError"
                   /\ Contains(call.msg, "must be provided")

\* get_scoutfs_config returned with the username from the overrides and the
\* password from the environment
C7_Witness ==
    /\ GotConfig
    /\ call.ref # 0
    /\ "username" \in DOMAIN call.arg.val
    /\ call.arg.val["username"] = PyStr("override_user")
    /\ "password" \notin DOMAIN call.arg.val
    /\ heap[call.ref]["password"] = PyStr("testpass")
    /\ heap[call.ref]["username"] = PyStr("override_user")

\* C8: DEFAULT_CONFIG is computed from os.environ when the module body runs:
\* whatever changes of os.environ and calls of load follow, DEFAULT_CONFIG
\* is what the environment of the last import or reload gives, and load(None)
\* returns that, not what os.environ gives now.
C8_SnapshotTakenAtImport ==
    /\ heap[DEFAULT_CONFIG] = ComputeDefaults(importEnv)
    /\ (call.op = "load" /\ call.arg.kind = "none")
          => call.val = ComputeDefaults(importEnv)

\* load(None) ran after os.environ changed in a way a fresh import would see
C8_Witness ==
    /\ call.op = "load"
    /\ call.arg.kind = "none"
    /\ environ # importEnv
    /\ ComputeDefaults(environ) # ComputeDefaults(importEnv)
    /\ call.val # ComputeDefaults(environ)

\* C9: in DEFAULT_CONFIG, api_url is SCOUTFS_API_URL when that is set, and
\* otherwise "https://{host}:{port}/v{version}" from SCOUTFS_API_HOST
\* (default "hsm.dmawi.de"), SCOUTFS_API_PORT (default "8080") and
\* SCOUTFS_API_VERSION (default "1"); ssl_verify is true exactly when
\* SCOUTFS_SSL_VERIFY is set to "true" in any mix of upper and lower case.
C9_DefaultsFromEnvironment ==
    LET e == importEnv
        d == heap[DEFAULT_CONFIG]
        host == IF "SCOUTFS_API_HOST" \in DOMAIN e
                THEN e["SCOUTFS_API_HOST"] ELSE "hsm.dmawi.de"
        port == IF "SCOUTFS_API_PORT" \in DOMAIN e
                THEN e["SCOUTFS_API_PORT"] ELSE "8080"
        version == IF "SCOUTFS_API_VERSION" \in DOMAIN e
                   THEN e["SCOUTFS_API_VERSION"] ELSE "1"
    IN /\ "SCOUTFS_API_URL" \in DOMAIN e
            => d["api_url"] = PyStr(e["SCOUTFS_API_URL"])
       /\ "SCOUTFS_API_URL" \notin DOMAIN e
            => d["api_url"] =
                  PyStr("https://" \o host \o ":" \o port \o "/v" \o version)
       /\ d["ssl_verify"] =
            PyBool(/\ "SCOUTFS_SSL_VERIFY" \in DOMAIN e
                   /\ e["SCOUTFS_SSL_VERIFY"] \in TrueSpellings)
       /\ e = [SCOUTFS_API_HOST |-> "custom.host", SCOUTFS_API_PORT |-> "9000",
               SCOUTFS_API_VERSION |-> "2", SCOUTFS_SSL_VERIFY |-> "true"]
            => /\ d["api_url"] = PyStr("https://custom.host:9000/v2")
               /\ d["ssl_verify"] = PyBool(TRUE)

\* the module was reloaded with a host, port and version set, no
\* SCOUTFS_API_URL, and SCOUTFS_SSL_VERIFY=True
C9_Witness ==
    /\ call.op = "reload"
    /\ importEnv = [SCOUTFS_API_HOST |-> "custom.host", SCOUTFS_API_PORT |-> "9000",
                    SCOUTFS_API_VERSION |-> "2", SCOUTFS_SSL_VERIFY |-> "True"]
    /\ heap[DEFAULT_CONFIG]["api_url"] = PyStr("https://custom.host:9000/v2")
    /\ heap[DEFAULT_CONFIG]["ssl_verify"] = PyBool(TRUE)

\* C10: load returns a fresh dict that shares nothing with DEFAULT_CONFIG
\* or with earlier results: no step but a reload changes DEFAULT_CONFIG, no
\* call of load, validate or get_scoutfs_config changes a dict returned
\* earlier, a caller's change of one returned dict changes no other dict,
\* and load(None) returns what DEFAULT_CONFIG held before the call.
C10_NoSharedState ==
    [][/\ call'.op # "reload" =>
            /\ DEFAULT_CONFIG' = DEFAULT_CONFIG
            /\ heap'[DEFAULT_CONFIG] = heap[DEFAULT_CONFIG]
       /\ call'.op \notin {"setitem", "delitem"} =>
            \A r \in results : heap'[r] = heap[r]
       /\ call'.op \in {"setitem", "delitem"} =>
            \A r \in DOMAIN heap \ {call'.ref} : heap'[r] = heap[r]
       /\ (call'.op \in {"load", "get_scoutfs_config"} /\ call'.ref # 0) =>
            /\ call'.ref \notin DOMAIN heap
            /\ call'.ref # DEFAULT_CONFIG'
       /\ (call'.op = "load" /\ call'.arg.kind = "none") =>
            /\ call'.val = heap[DEFAULT_CONFIG]
            /\ heap'[call'.ref] = ComputeDefaults(importEnv)
      ]_vars

\* load(None) ran after the caller changed a dict returned earlier, and that
\* dict still differs from DEFAULT_CONFIG and from the new result
C10_Witness ==
    /\ call.op = "load"
    /\ call.arg.kind = "none"
    /\ mutations > 0
    /\ call.val = heap[DEFAULT_CONFIG]
    /\ \E r \in results \ {call.ref} :
          /\ heap[r] # heap[DEFAULT_CONFIG]
          /\ heap[r] # heap[call.ref]

=============================================================================
